---- MODULE Spec2Model ----
(***************************************************************************)
(* A model of sonar_app.py: the Streamlit chat application that keeps a   *)
(* list of conversations in st.session_state and mirrors it, as JSON       *)
(* text, in the browser's LocalStorage.                                    *)
(*                                                                         *)
(* Text is modelled as a sequence of one-character strings, so that the    *)
(* title truncation (user_input[:50]) and the JSON encoding and decoding   *)
(* (json.dumps / json.loads) are computed character by character.          *)
(***************************************************************************)
EXTENDS Integers, Sequences, FiniteSets, TLC

(***************************************************************************)
(* Bounds of the model.                                                    *)
(***************************************************************************)
\* The New button and the chat input are used while the session holds fewer
\* than MaxSize conversations and messages in all.
MaxSize == 3
\* The stored lists of SpecRoundTrip have at most MaxStored conversations.
MaxStored == 2

(***************************************************************************)
(* Characters and text.                                                    *)
(***************************************************************************)
None == "None"
Quote == "\""
Backslash == "\\"
Newline == "\n"

RECURSIVE Rep(_, _)
Rep(c, n) == IF n = 0 THEN <<>> ELSE <<c>> \o Rep(c, n - 1)

\* s[:n] of Python
Prefix(s, n) == IF Len(s) <= n THEN s ELSE SubSeq(s, 1, n)

\* the literals of the program
NEW_CONVERSATION == <<"N","e","w"," ","C","o","n","v","e","r","s","a","t","i","o","n">>
K_id == <<"i","d">>
K_title == <<"t","i","t","l","e">>
K_messages == <<"m","e","s","s","a","g","e","s">>
K_role == <<"r","o","l","e">>
K_content == <<"c","o","n","t","e","n","t">>
ROLE_USER == <<"u","s","e","r">>
ROLE_ASSISTANT == <<"a","s","s","i","s","t","a","n","t">>
KEY_USER_ID == <<"u","s","e","r","_","i","d">>
CONVERSATIONS_KEY_PREFIX == <<"c","o","n","v","e","r","s","a","t","i","o","n","s","_">>

\* CONVERSATIONS_KEY_TEMPLATE.format(user_id=user_id)
CONVERSATIONS_KEY(uid) == CONVERSATIONS_KEY_PREFIX \o uid

\* user_input[:50]
TitleMax == 50

(***************************************************************************)
(* json.dumps, on the values the program passes to it: a list of           *)
(* conversation dicts {"id", "title", "messages": [{"role", "content"}]}.  *)
(* Python's default separators are ", " and ": "; a string is quoted and   *)
(* its quotes, backslashes and newlines are escaped.                      *)
(***************************************************************************)
\* py_escape_char without the escape of the backslash
py_escape_char_no_backslash(c) ==
    IF c = Quote THEN <<Backslash, Quote>>
    ELSE IF c = Newline THEN <<Backslash, "n">>
    ELSE <<c>>

py_escape_char(c) ==
    IF c = Quote THEN <<Backslash, Quote>>
    ELSE IF c = Backslash THEN <<Backslash, Backslash>>
    ELSE IF c = Newline THEN <<Backslash, "n">>
    ELSE <<c>>

\* the n characters from s[i] on are all ordinary characters of a string
plain_run(s, i, n) ==
    i + n - 1 <= Len(s) /\ \A k \in i..(i + n - 1) : s[k] \notin {Quote, Backslash, Newline}

RECURSIVE py_escape_from(_, _)
\* a run of eight ordinary characters is copied in one step
py_escape_from(s, i) ==
    IF i > Len(s) THEN <<>>
    ELSE IF plain_run(s, i, 8) THEN SubSeq(s, i, i + 7) \o py_escape_from(s, i + 8)
    ELSE py_escape_char(s[i]) \o py_escape_from(s, i + 1)

dumps_str(s) == <<Quote>> \o py_escape_from(s, 1) \o <<Quote>>

ItemSep == <<",", " ">>
KeySep == <<":", " ">>

\* the keys, encoded
J_id == dumps_str(K_id) \o KeySep
J_title == dumps_str(K_title) \o KeySep
J_messages == dumps_str(K_messages) \o KeySep
J_role == dumps_str(K_role) \o KeySep
J_content == dumps_str(K_content) \o KeySep

dumps_message(m) ==
    <<"{">> \o J_role \o dumps_str(m.role) \o ItemSep
            \o J_content \o dumps_str(m.content) \o <<"}">>

RECURSIVE dumps_messages_from(_, _)
dumps_messages_from(ms, i) ==
    IF i > Len(ms) THEN <<>>
    ELSE (IF i > 1 THEN ItemSep ELSE <<>>) \o dumps_message(ms[i])
         \o dumps_messages_from(ms, i + 1)

dumps_conversation(c) ==
    <<"{">> \o J_id \o dumps_str(c.id) \o ItemSep
            \o J_title \o dumps_str(c.title) \o ItemSep
            \o J_messages
            \o <<"[">> \o dumps_messages_from(c.messages, 1) \o <<"]">> \o <<"}">>

RECURSIVE dumps_conversations_from(_, _)
dumps_conversations_from(cs, i) ==
    IF i > Len(cs) THEN <<>>
    ELSE (IF i > 1 THEN ItemSep ELSE <<>>) \o dumps_conversation(cs[i])
         \o dumps_conversations_from(cs, i + 1)

json_dumps(cs) == <<"[">> \o dumps_conversations_from(cs, 1) \o <<"]">>

(***************************************************************************)
(* json.loads: a recursive-descent parser of JSON text made of strings,    *)
(* arrays and objects.  A parsed value is tagged: [t |-> "str", v |-> the  *)
(* characters], [t |-> "list", v |-> the elements], [t |-> "dict", v |->   *)
(* the <<key, value>> pairs in order].  A parse step returns               *)
(* [ok, val, pos]: pos is the index after the value.                       *)
(***************************************************************************)
ParseFail == [ok |-> FALSE, val |-> None, pos |-> 0]
ParseOk(v, p) == [ok |-> TRUE, val |-> v, pos |-> p]

RECURSIVE skip_ws(_, _)
skip_ws(s, i) ==
    IF i <= Len(s) /\ s[i] \in {" ", Newline} THEN skip_ws(s, i + 1) ELSE i

RECURSIVE scan_string(_, _, _)
\* i is after the opening quote; acc the characters decoded so far; a run of
\* eight ordinary characters is taken in one step
scan_string(s, i, acc) ==
    IF i > Len(s) THEN ParseFail
    ELSE IF plain_run(s, i, 8) THEN scan_string(s, i + 8, acc \o SubSeq(s, i, i + 7))
    ELSE IF s[i] = Quote THEN ParseOk([t |-> "str", v |-> acc], i + 1)
    ELSE IF s[i] = Newline THEN ParseFail
    ELSE IF s[i] = Backslash THEN
        IF i + 1 > Len(s) THEN ParseFail
        ELSE IF s[i + 1] = Quote THEN scan_string(s, i + 2, Append(acc, Quote))
        ELSE IF s[i + 1] = Backslash THEN scan_string(s, i + 2, Append(acc, Backslash))
        ELSE IF s[i + 1] = "n" THEN scan_string(s, i + 2, Append(acc, Newline))
        ELSE ParseFail
    ELSE scan_string(s, i + 1, Append(acc, s[i]))

RECURSIVE parse_value(_, _)
RECURSIVE parse_array_items(_, _, _)
RECURSIVE parse_object_items(_, _, _)

\* i is at the first character of an element
parse_array_items(s, i, acc) ==
    LET r == parse_value(s, i)
        j == skip_ws(s, r.pos)
    IN  IF ~r.ok \/ j > Len(s) THEN ParseFail
        ELSE IF s[j] = "," THEN parse_array_items(s, skip_ws(s, j + 1), Append(acc, r.val))
        ELSE IF s[j] = "]" THEN ParseOk([t |-> "list", v |-> Append(acc, r.val)], j + 1)
        ELSE ParseFail

\* i is at the opening quote of a key
parse_object_items(s, i, acc) ==
    IF i > Len(s) \/ s[i] # Quote THEN ParseFail
    ELSE
    LET k == scan_string(s, i + 1, <<>>)
        c == skip_ws(s, k.pos)
    IN  IF ~k.ok \/ c > Len(s) \/ s[c] # ":" THEN ParseFail
        ELSE
        LET r == parse_value(s, skip_ws(s, c + 1))
            j == skip_ws(s, r.pos)
        IN  IF ~r.ok \/ j > Len(s) THEN ParseFail
            ELSE IF s[j] = "," THEN
                parse_object_items(s, skip_ws(s, j + 1), Append(acc, <<k.val.v, r.val>>))
            ELSE IF s[j] = "}" THEN
                ParseOk([t |-> "dict", v |-> Append(acc, <<k.val.v, r.val>>)], j + 1)
            ELSE ParseFail

parse_value(s, i) ==
    IF i > Len(s) THEN ParseFail
    ELSE IF s[i] = Quote THEN scan_string(s, i + 1, <<>>)
    ELSE IF s[i] = "[" THEN
        LET j == skip_ws(s, i + 1)
        IN  IF j > Len(s) THEN ParseFail
            ELSE IF s[j] = "]" THEN ParseOk([t |-> "list", v |-> <<>>], j + 1)
            ELSE parse_array_items(s, j, <<>>)
    ELSE IF s[i] = "{" THEN
        LET j == skip_ws(s, i + 1)
        IN  IF j > Len(s) THEN ParseFail
            ELSE IF s[j] = "}" THEN ParseOk([t |-> "dict", v |-> <<>>], j + 1)
            ELSE parse_object_items(s, j, <<>>)
    ELSE ParseFail

\* json.loads(raw): ok is FALSE where Python raises JSONDecodeError
json_loads(raw) ==
    LET r == parse_value(raw, skip_ws(raw, 1))
    IN  IF r.ok /\ skip_ws(raw, r.pos) > Len(raw) THEN r ELSE ParseFail


\* d[key] of a parsed dict (the last pair of that key, as Python keeps it)
RECURSIVE dict_get_from(_, _, _)
dict_get_from(d, key, i) ==
    IF i = 0 THEN [t |-> "missing", v |-> <<>>]
    ELSE IF d.v[i][1] = key THEN d.v[i][2]
    ELSE dict_get_from(d, key, i - 1)

dict_get(d, key) == dict_get_from(d, key, Len(d.v))

\* The parsed list read back as the conversation records the handlers use:
\* c["id"], c["title"], c["messages"], msg["role"], msg["content"].
as_message(v) ==
    [role |-> dict_get(v, K_role).v, content |-> dict_get(v, K_content).v]

as_conversation(v) ==
    LET ms == dict_get(v, K_messages).v
    IN  [id |-> dict_get(v, K_id).v,
         title |-> dict_get(v, K_title).v,
         messages |-> [i \in 1..Len(ms) |-> as_message(ms[i])]]

as_conversations(val) == [i \in 1..Len(val.v) |-> as_conversation(val.v[i])]

(***************************************************************************)
(* LocalStorage: a store of text by key.  getItem of an absent key gives   *)
(* Python's None, modelled by present = FALSE.                             *)
(***************************************************************************)
getItem(st, key) ==
    IF key \in DOMAIN st THEN [present |-> TRUE, value |-> st[key]]
    ELSE [present |-> FALSE, value |-> <<>>]

setItem(st, key, val) ==
    [k \in (DOMAIN st) \cup {key} |-> IF k = key THEN val ELSE st[k]]

\* Python's truth value of what getItem returned: None and "" are false
Truthy(r) == r.present /\ r.value # <<>>

\* str(uuid.uuid4()): an identifier in use nowhere.  The identifiers are
\* Uuid(1), Uuid(2), ...; the model takes the first that is not in used.
Digits == <<"1", "2", "3", "4", "5", "6", "7", "8", "9">>
Uuid(n) == <<"i", "d", "-", Digits[n]>>
AllIds == {Uuid(n) : n \in 1..Len(Digits)}
uuid4(used) ==
    Uuid(CHOOSE n \in 1..Len(Digits) :
            Uuid(n) \notin used /\ \A m \in 1..(n - 1) : Uuid(m) \in used)


(***************************************************************************)
(* Inputs of the model.                                                    *)
(***************************************************************************)
\* a message that is the placeholder title itself
TextPlaceholder == NEW_CONVERSATION
\* a message of 51 characters, with Markdown and JSON special characters
TextLong == <<"*", "*", Quote, "a", Backslash, "b", Quote, "*", "*", Newline, "#">>
            \o Rep("x", 39) \o <<"Z">>
\* what st.chat_input can return: never the empty string (line 231)
UserTexts == {TextPlaceholder, TextLong}

\* the text of a successful completion
ReplyText == <<"o", "k">>

\* what the request of call_perplexity_api can meet
ApiOutcomes == {"ok", "empty_content", "http_400", "http_error", "network_error",
                "unusable_response"}

DEFAULT_INSTRUCTIONS == "You are a cannabis industry research assistant ..."
\* what the instruction forms can hold
InstructionNames == {"", "Default", "Strains", "Reports"}
InstructionTexts == {"", "Answer briefly.", "Cite the sources."}

(***************************************************************************)
(* State.  The st.session_state keys exist from the first script run of a  *)
(* session on (pc # "closed"); a reload discards them all.  LocalStorage   *)
(* is taken to work: getItem and setItem return.                           *)
(***************************************************************************)
VARIABLES
    store,                      \* the browser's LocalStorage: key -> text
    pc,                         \* "closed": no session state; "idle": between
                                \* script runs; "calling": inside the request of
                                \* call_perplexity_api
    user_id,                    \* st.session_state.user_id
    conversations,              \* st.session_state.conversations
    current_conv_id,            \* st.session_state.current_conv_id
    messages,                   \* st.session_state.messages
    authenticated,              \* st.session_state.authenticated
    custom_instructions,        \* st.session_state.custom_instructions
    current_instruction_name,   \* st.session_state.current_instruction_name
    instructions,               \* st.session_state.instructions
    instruction_edit_mode,      \* st.session_state.instruction_edit_mode
    user_input,                 \* display_chat's user_input during the request
    prev_user_id,               \* history: user_id of the session before the reload
    last_loaded,                \* history: what load_conversations returned in the
                                \* last step, if that step called it
    last_saved,                 \* history: key -> the list last written under it
    first_user_message,         \* history: conversation id -> the first user
                                \* message sent in it
    recording                   \* whether first_user_message is kept (it is in
                                \* SpecHistory only)

vars == <<store, pc, user_id, conversations, current_conv_id, messages,
          authenticated, custom_instructions, current_instruction_name,
          instructions, instruction_edit_mode, user_input,
          prev_user_id, last_loaded, last_saved, first_user_message, recording>>

conv_vars == <<conversations, current_conv_id, messages>>
instr_vars == <<custom_instructions, current_instruction_name, instructions,
                instruction_edit_mode>>

NoText == <<>>
NotLoaded == [called |-> FALSE, value |-> <<>>]
\* a step that does not call load_conversations
NoLoad == last_loaded' = NotLoaded /\ UNCHANGED recording
EmptyStore == [k \in {} |-> <<>>]

(***************************************************************************)
(* Conversation persistence (lines 58-95).                                 *)
(***************************************************************************)
\* load_conversations: a text json.loads rejects gives [] (lines 65-67)
load_conversations(st, uid) ==
    LET raw == getItem(st, CONVERSATIONS_KEY(uid))
        parsed == json_loads(raw.value)
    IN  IF Truthy(raw) /\ parsed.ok THEN as_conversations(parsed.val) ELSE <<>>

\* save_conversations
save_conversations(st, uid, cs) == setItem(st, CONVERSATIONS_KEY(uid), json_dumps(cs))

new_conversation(id) == [id |-> id, title |-> NEW_CONVERSATION, messages |-> <<>>]

\* next(c for c in conversations if c["id"] == current_conv_id), as an index
current_index(cs, cur) == CHOOSE i \in 1..Len(cs) : cs[i].id = cur /\
                              \A j \in 1..(i - 1) : cs[j].id # cur

has_conversation(cs, cur) == \E i \in 1..Len(cs) : cs[i].id = cur

\* ensure_current_conversation taking the new identifier whatever the list
ensure_current_conversation_new_id(cs, new_id) ==
    LET cs1 == IF cs # <<>> THEN cs ELSE <<new_conversation(new_id)>>
    IN  [conversations |-> cs1,
         current_conv_id |-> new_id,
         messages |-> cs1[1].messages]

\* ensure_current_conversation, when "current_conv_id" is not in session_state
ensure_current_conversation(cs, new_id) ==
    LET cs1 == IF cs # <<>> THEN cs ELSE <<new_conversation(new_id)>>
    IN  [conversations |-> cs1,
         current_conv_id |-> cs1[1].id,
         messages |-> cs1[1].messages]

\* get_persistent_user_id: new_id is what uuid4 would return
get_persistent_user_id(st, new_id) ==
    LET got == getItem(st, KEY_USER_ID)
    IN  IF ~Truthy(got)
        THEN [user_id |-> new_id, store |-> setItem(st, KEY_USER_ID, new_id)]
        ELSE [user_id |-> got.value, store |-> st]

(***************************************************************************)
(* sidebar_conversation_selector (lines 171-217).                          *)
(***************************************************************************)
\* lines 178-183: the index the select box is given
selected_idx(cs, cur) == IF has_conversation(cs, cur) THEN current_index(cs, cur) ELSE 1

\* titles.index(selected_title)
titles_index(cs, title) == CHOOSE i \in 1..Len(cs) : cs[i].title = title /\
                               \A j \in 1..(i - 1) : cs[j].title # title

\* lines 185-191, the select box returning the title at index pick
select_conversation(cs, cur, pick) ==
    LET selected_conv == cs[titles_index(cs, cs[pick].title)]
    IN  IF selected_conv.id # cur THEN selected_conv.id ELSE cur

\* a script run in which the user did not touch the select box: it returns
\* the title at selected_idx
rerun_selector(cs, cur) == select_conversation(cs, cur, selected_idx(cs, cur))

\* lines 196-200
insert_new(cs, new_id) == <<new_conversation(new_id)>> \o cs

\* line 206
remove_current(cs, cur) == SelectSeq(cs, LAMBDA c : c.id # cur)

\* lines 204-215
delete_current(cs, cur, new_id) ==
    LET rest == remove_current(cs, cur)
    IN  IF rest # <<>> THEN rest ELSE <<new_conversation(new_id)>>

(***************************************************************************)
(* display_chat (lines 221-263) and call_perplexity_api (lines 142-166).   *)
(***************************************************************************)
user_message(text) == [role |-> ROLE_USER, content |-> text]
assistant_message(text) == [role |-> ROLE_ASSISTANT, content |-> text]

\* lines 237-238
title_after_message(title, text) ==
    IF title \in {NEW_CONVERSATION, <<>>} THEN Prefix(text, TitleMax) ELSE title

\* lines 233-238: st.session_state.messages is the current conversation's list
\* (ensure_current_conversation and the selector alias it), so the append
\* at line 233 is an append to that conversation
append_user_message(cs, cur, text) ==
    LET i == current_index(cs, cur)
    IN  [cs EXCEPT ![i] = [id |-> cs[i].id,
                           title |-> title_after_message(cs[i].title, text),
                           messages |-> Append(cs[i].messages, user_message(text))]]

\* line 255 assigning a new list instead of appending
replace_by_assistant_message(cs, cur, text) ==
    LET i == current_index(cs, cur)
    IN  [cs EXCEPT ![i].messages = <<assistant_message(text)>>]

\* line 255, through the same alias, and line 262
append_assistant_message(cs, cur, text) ==
    LET i == current_index(cs, cur)
    IN  [cs EXCEPT ![i].messages = Append(cs[i].messages, assistant_message(text))]

\* call_perplexity_api: raised is TRUE when an exception leaves the function.
\* requests.post raising and raise_for_status are RequestExceptions and are
\* caught (line 164); a body without choices[0].message.content raises
\* KeyError, IndexError or TypeError at line 163, which no handler catches.
call_perplexity_api(outcome) ==
    CASE outcome = "ok" -> [raised |-> FALSE, value |-> ReplyText]
      [] outcome = "empty_content" -> [raised |-> FALSE, value |-> <<>>]
      [] outcome \in {"http_400", "http_error", "network_error"} ->
            [raised |-> FALSE, value |-> <<>>]
      [] outcome = "unusable_response" -> [raised |-> TRUE, value |-> <<>>]

\* lines 332-333
clear_messages(cs, cur) == [cs EXCEPT ![current_index(cs, cur)].messages = <<>>]

(***************************************************************************)
(* The session before its first script run.                                *)
(***************************************************************************)
DefaultProfiles == [n \in {"Default"} |-> DEFAULT_INSTRUCTIONS]

NoSession ==
    /\ user_id = <<>>
    /\ conversations = <<>>
    /\ current_conv_id = <<>>
    /\ messages = <<>>
    /\ authenticated = FALSE
    /\ custom_instructions = DefaultProfiles
    /\ current_instruction_name = "Default"
    /\ instructions = DEFAULT_INSTRUCTIONS
    /\ instruction_edit_mode = "view"
    /\ user_input = NoText

Init ==
    /\ store = EmptyStore
    /\ pc = "closed"
    /\ NoSession
    /\ prev_user_id = <<>>
    /\ last_loaded = NotLoaded
    /\ last_saved = EmptyStore
    /\ first_user_message = [c \in AllIds |-> NoText]
    /\ recording = FALSE

\* the same start, first_user_message being kept
InitHistory ==
    /\ store = EmptyStore
    /\ pc = "closed"
    /\ NoSession
    /\ prev_user_id = <<>>
    /\ last_loaded = NotLoaded
    /\ last_saved = EmptyStore
    /\ first_user_message = [c \in AllIds |-> NoText]
    /\ recording = TRUE

ids_of(cs) == {cs[i].id : i \in 1..Len(cs)}

\* the identifiers the store holds
StoredIds ==
    UNION {ids_of(last_saved[k]) : k \in DOMAIN last_saved}
    \cup (IF KEY_USER_ID \in DOMAIN store THEN {store[KEY_USER_ID]} ELSE {})

\* the identifiers in use: uuid4 returns none of them
InUse ==
    {user_id} \cup ids_of(conversations) \cup StoredIds
    \cup {c \in AllIds : first_user_message[c] # NoText}

RECURSIVE total_messages(_, _)
\* the number of messages in the first n conversations
total_messages(cs, n) ==
    IF n = 0 THEN 0 ELSE Len(cs[n].messages) + total_messages(cs, n - 1)

\* the number of conversations and messages the session holds
session_size(cs) == Len(cs) + total_messages(cs, Len(cs))

\* save_conversations at the end of a handler, with its history
Save(cs) ==
    /\ store' = save_conversations(store, user_id, cs)
    /\ last_saved' = setItem(last_saved, CONVERSATIONS_KEY(user_id), cs)

\* The part of every script run of an authenticated session that precedes
\* the buttons and the page: ensure_current_conversation (line 137) and
\* the select box (lines 176-191), the user not having touched it.
RunSelector ==
    LET cur == rerun_selector(conversations, current_conv_id)
    IN  /\ current_conv_id' = cur
        /\ messages' = conversations[current_index(conversations, cur)].messages
        /\ UNCHANGED conversations

(***************************************************************************)
(* main() on a new session: initialize_session_state, then the login       *)
(* screen (lines 341-367).                                                 *)
(***************************************************************************)
PageLoad ==
    /\ pc = "closed"
    /\ LET idn == get_persistent_user_id(store, uuid4(InUse))
           loaded == load_conversations(idn.store, idn.user_id)
           ens == ensure_current_conversation(loaded, uuid4(InUse \cup {idn.user_id}))
       IN  /\ user_id' = idn.user_id
           /\ store' = idn.store
           /\ conversations' = ens.conversations
           /\ current_conv_id' = ens.current_conv_id
           /\ messages' = ens.messages
           /\ last_loaded' = [called |-> TRUE, value |-> loaded]
           /\ UNCHANGED recording
    /\ pc' = "idle"
    /\ authenticated' = FALSE
    /\ UNCHANGED <<instr_vars, user_input, prev_user_id, last_saved, first_user_message>>

\* The browser reloads the page or opens it again: the session state is gone,
\* LocalStorage stays.  A script run in progress is abandoned.  What was sent
\* in a conversation that is stored nowhere is forgotten with it.
Reload ==
    /\ pc # "closed"
    /\ pc' = "closed"
    /\ user_id' = <<>>
    /\ conversations' = <<>>
    /\ current_conv_id' = <<>>
    /\ messages' = <<>>
    /\ authenticated' = FALSE
    /\ custom_instructions' = DefaultProfiles
    /\ current_instruction_name' = "Default"
    /\ instructions' = DEFAULT_INSTRUCTIONS
    /\ instruction_edit_mode' = "view"
    /\ user_input' = NoText
    /\ prev_user_id' = user_id
    /\ NoLoad
    /\ first_user_message' =
          [c \in AllIds |-> IF c \in StoredIds THEN first_user_message[c] ELSE NoText]
    /\ UNCHANGED <<store, last_saved>>

\* lines 349-367: the Login button, and the rerun it asks for
Login(accepted) ==
    /\ pc = "idle" /\ ~authenticated
    /\ authenticated' = accepted
    /\ IF accepted THEN RunSelector ELSE UNCHANGED conv_vars
    /\ NoLoad
    /\ UNCHANGED <<store, pc, user_id, instr_vars, user_input,
                   prev_user_id, last_saved, first_user_message>>

(***************************************************************************)
(* The script runs of an authenticated session.                            *)
(***************************************************************************)
Authenticated == pc = "idle" /\ authenticated

session_frame == <<pc, user_id, authenticated, user_input, prev_user_id>>

\* a run in which nothing of the sidebar or the chat is used (the page radio,
\* the model select box): only the selector is rendered
Rerun ==
    /\ Authenticated
    /\ RunSelector
    /\ NoLoad
    /\ UNCHANGED <<store, session_frame, instr_vars, last_saved, first_user_message>>

\* lines 185-191: the user picks the entry at index pick in the select box
SelectConversation(pick) ==
    /\ Authenticated
    /\ pick \in 1..Len(conversations)
    /\ pick # selected_idx(conversations, current_conv_id)
    /\ LET cur == select_conversation(conversations, current_conv_id, pick)
       IN  /\ current_conv_id' = cur
           /\ messages' = conversations[current_index(conversations, cur)].messages
    /\ NoLoad
    /\ UNCHANGED <<conversations, store, session_frame, instr_vars, last_saved,
                   first_user_message>>

\* lines 196-202: the New button, and the rerun it asks for
NewConversation ==
    /\ Authenticated
    /\ session_size(conversations) < MaxSize
    /\ LET new_id == uuid4(InUse)
           cs == insert_new(conversations, new_id)
           cur == rerun_selector(cs, new_id)
       IN  /\ conversations' = cs
           /\ current_conv_id' = cur
           /\ messages' = cs[current_index(cs, cur)].messages
           /\ Save(cs)
    /\ NoLoad
    /\ UNCHANGED <<session_frame, instr_vars, first_user_message>>

\* lines 204-217: the Delete button, and the rerun it asks for
DeleteConversation ==
    /\ Authenticated
    /\ LET cur0 == rerun_selector(conversations, current_conv_id)
           cs == delete_current(conversations, cur0, uuid4(InUse))
           cur == rerun_selector(cs, cs[1].id)
       IN  /\ conversations' = cs
           /\ current_conv_id' = cur
           /\ messages' = cs[current_index(cs, cur)].messages
           /\ Save(cs)
           /\ first_user_message' = [first_user_message EXCEPT ![cur0] = NoText]
    /\ NoLoad
    /\ UNCHANGED <<session_frame, instr_vars>>

\* lines 231-251: the chat input, up to the request
SendMessage(text) ==
    /\ Authenticated
    /\ session_size(conversations) < MaxSize
    /\ LET cur == rerun_selector(conversations, current_conv_id)
           cs == append_user_message(conversations, cur, text)
       IN  /\ conversations' = cs
           /\ current_conv_id' = cur
           /\ messages' = cs[current_index(cs, cur)].messages
           /\ first_user_message' =
                IF recording /\ first_user_message[cur] = NoText
                THEN [first_user_message EXCEPT ![cur] = text]
                ELSE first_user_message
    /\ user_input' = text
    /\ pc' = "calling"
    /\ NoLoad
    /\ UNCHANGED <<store, user_id, authenticated, instr_vars, prev_user_id, last_saved>>

\* lines 251-263: the request returns or raises, and the rest of display_chat
ApiReturn(outcome) ==
    /\ pc = "calling"
    /\ LET response == call_perplexity_api(outcome)
       IN  IF response.raised
           THEN UNCHANGED <<conv_vars, store, last_saved>>
           ELSE /\ LET cs == IF response.value # <<>>
                             THEN append_assistant_message(conversations,
                                      current_conv_id, response.value)
                             ELSE conversations
                   IN  /\ conversations' = cs
                       /\ messages' = cs[current_index(cs, current_conv_id)].messages
                       /\ Save(cs)
                /\ UNCHANGED current_conv_id
    /\ pc' = "idle"
    /\ user_input' = NoText
    /\ NoLoad
    /\ UNCHANGED <<user_id, authenticated, instr_vars, prev_user_id, first_user_message>>

\* lines 330-336: the Clear Current Conversation button of the settings page
ClearConversation ==
    /\ Authenticated
    /\ LET cur == rerun_selector(conversations, current_conv_id)
           cs == clear_messages(conversations, cur)
       IN  /\ conversations' = cs
           /\ current_conv_id' = cur
           /\ messages' = <<>>
           /\ Save(cs)
    /\ NoLoad
    /\ UNCHANGED <<session_frame, instr_vars, first_user_message>>

(***************************************************************************)
(* instructions_page (lines 266-320).  Each of its runs is a run of an     *)
(* authenticated session, so the sidebar selector runs first.              *)
(***************************************************************************)
instr_frame == <<store, session_frame, last_saved, first_user_message>>

\* line 273 without its test of the existing names
can_create_any_name(profiles, name, content) ==
    name # "" /\ content # ""

\* line 273
can_create(profiles, name, content) ==
    name # "" /\ content # "" /\ name \notin DOMAIN profiles

\* line 274
with_profile(profiles, name, content) ==
    [n \in (DOMAIN profiles) \cup {name} |-> IF n = name THEN content ELSE profiles[n]]

\* line 316
without_profile(profiles, name) == [n \in (DOMAIN profiles) \ {name} |-> profiles[n]]

\* lines 286-290: the view is rendered with the select box returning selected
SelectInstruction(selected) ==
    /\ Authenticated /\ instruction_edit_mode = "view"
    /\ selected \in DOMAIN custom_instructions
    /\ selected # current_instruction_name
    /\ RunSelector
    /\ current_instruction_name' = selected
    /\ instructions' = custom_instructions[selected]
    /\ NoLoad
    /\ UNCHANGED <<custom_instructions, instruction_edit_mode, instr_frame>>

\* lines 294-296: the New Instruction button
NewInstruction ==
    /\ Authenticated /\ instruction_edit_mode = "view"
    /\ RunSelector
    /\ instructions' = custom_instructions[current_instruction_name]
    /\ instruction_edit_mode' = "create"
    /\ NoLoad
    /\ UNCHANGED <<custom_instructions, current_instruction_name, instr_frame>>

\* lines 269-279: the form's Save button, and the rerun it asks for when the
\* profile is accepted
CreateInstruction(name, content) ==
    /\ Authenticated /\ instruction_edit_mode = "create"
    /\ RunSelector
    /\ IF can_create(custom_instructions, name, content)
       THEN /\ custom_instructions' = with_profile(custom_instructions, name, content)
            /\ current_instruction_name' = name
            /\ instructions' = content
            /\ instruction_edit_mode' = "view"
       ELSE UNCHANGED instr_vars
    /\ NoLoad
    /\ UNCHANGED instr_frame

\* lines 280-282: the Cancel button, and the view the rerun renders
CancelCreate ==
    /\ Authenticated /\ instruction_edit_mode = "create"
    /\ RunSelector
    /\ instruction_edit_mode' = "view"
    /\ instructions' = custom_instructions[current_instruction_name]
    /\ NoLoad
    /\ UNCHANGED <<custom_instructions, current_instruction_name, instr_frame>>

\* lines 307-313: Save Changes, offered when selected # "Default"; the rerun
\* renders the view again (line 290)
SaveChanges(edited_content) ==
    /\ Authenticated /\ instruction_edit_mode = "view"
    /\ current_instruction_name # "Default"
    /\ RunSelector
    /\ custom_instructions' =
          [custom_instructions EXCEPT ![current_instruction_name] = edited_content]
    /\ instructions' = edited_content
    /\ NoLoad
    /\ UNCHANGED <<current_instruction_name, instruction_edit_mode, instr_frame>>

\* lines 315-320: Delete, offered when selected # "Default"
DeleteInstruction ==
    /\ Authenticated /\ instruction_edit_mode = "view"
    /\ current_instruction_name # "Default"
    /\ RunSelector
    /\ custom_instructions' = without_profile(custom_instructions, current_instruction_name)
    /\ current_instruction_name' = "Default"
    /\ instructions' = custom_instructions["Default"]
    /\ NoLoad
    /\ UNCHANGED <<instruction_edit_mode, instr_frame>>

(***************************************************************************)
(* The specifications.                                                     *)
(*                                                                         *)
(* The conversation handlers read and write the conversation state, the    *)
(* instruction handlers the instruction state; an instruction handler's    *)
(* run changes the conversation state exactly as Rerun does, and no        *)
(* conversation handler reads or writes the instruction state.  So the two *)
(* are explored apart: Spec has the conversation handlers (Rerun standing  *)
(* for every run that renders only the selector), SpecInstructions the     *)
(* instruction handlers on top of the session's start.                     *)
(***************************************************************************)
Session ==
    \/ PageLoad
    \/ Reload
    \/ \E accepted \in BOOLEAN : Login(accepted)
    \/ Rerun

Next ==
    \/ Session
    \/ \E pick \in 1..MaxSize : SelectConversation(pick)
    \/ NewConversation
    \/ DeleteConversation
    \/ \E text \in UserTexts : SendMessage(text)
    \/ \E outcome \in ApiOutcomes : ApiReturn(outcome)
    \/ ClearConversation

NextInstructions ==
    \/ Session
    \/ \E selected \in InstructionNames : SelectInstruction(selected)
    \/ NewInstruction
    \/ \E name \in InstructionNames, content \in InstructionTexts :
          CreateInstruction(name, content)
    \/ CancelCreate
    \/ \E content \in InstructionTexts : SaveChanges(content)
    \/ DeleteInstruction

Spec == Init /\ [][Next]_vars

SpecInstructions == Init /\ [][NextInstructions]_vars

\* Spec with the history of the first user messages
SpecHistory == InitHistory /\ [][Next]_vars

(***************************************************************************)
(* SpecRoundTrip: the page is opened in a browser whose LocalStorage holds *)
(* an identifier and what save_conversations wrote for a list of at most   *)
(* MaxStored conversations (the empty list included, which no handler      *)
(* saves).  The session is loaded, used without a handler and reloaded.    *)
(***************************************************************************)
SampleTitles == {NEW_CONVERSATION, Prefix(TextLong, TitleMax)}
SampleMessages == {<<>>, <<user_message(TextLong)>>,
                   <<user_message(TextLong), assistant_message(ReplyText)>>}
SampleConversations(id) ==
    {[id |-> id, title |-> t, messages |-> m] : t \in SampleTitles, m \in SampleMessages}
SampleLists ==
    UNION {{cs \in [1..n -> UNION {SampleConversations(Uuid(i + 1)) : i \in 1..n}] :
               \A i \in 1..n : cs[i].id = Uuid(i + 1)} : n \in 0..MaxStored}

InitRoundTrip ==
    \E cs \in SampleLists :
        /\ store = save_conversations(setItem(EmptyStore, KEY_USER_ID, Uuid(1)), Uuid(1), cs)
        /\ pc = "closed"
        /\ NoSession
        /\ prev_user_id = Uuid(1)
        /\ last_loaded = NotLoaded
        /\ last_saved = setItem(EmptyStore, CONVERSATIONS_KEY(Uuid(1)), cs)
        /\ first_user_message = [c \in AllIds |-> NoText]
        /\ recording = FALSE

NextRoundTrip == Session

SpecRoundTrip == InitRoundTrip /\ [][NextRoundTrip]_vars

(***************************************************************************)
(* Properties.                                                             *)
(***************************************************************************)
\* what LocalStorage holds for the user's conversations, as the program
\* would load it
stored_conversations == load_conversations(store, user_id)

Last(s) == s[Len(s)]

IsPrefix(s, t) == Len(s) <= Len(t) /\ \A i \in 1..Len(s) : s[i] = t[i]

\* the conversation of identifier id in cs ends with the user's message text
ends_with_user_message(cs, id, text) ==
    /\ has_conversation(cs, id)
    /\ LET ms == cs[current_index(cs, id)].messages
       IN  ms # <<>> /\ Last(ms) = user_message(text)

\* C1: once the session is initialized, the conversation list is not empty
\* and current_conv_id is the id of exactly one conversation of the list.
C1_CurrentConversationExists ==
    pc # "closed" =>
        /\ conversations # <<>>
        /\ Cardinality({i \in 1..Len(conversations) :
                           conversations[i].id = current_conv_id}) = 1

\* C1's case: conversations were created and deleted, one was selected, and
\* the current one is not the first of the list
C1_Witness ==
    /\ Authenticated
    /\ Len(conversations) = 2
    /\ current_conv_id = conversations[2].id
    /\ conversations[1].messages # <<>>
    /\ conversations[2].title # conversations[1].title

\* the ways the request of a sent message fails
FailureOutcomes == {"http_400", "http_error", "network_error", "unusable_response"}

\* C2: when the request made for a sent message fails, in any of the ways it
\* can fail, the interaction ends with the user's message as the last message
\* of the current conversation in memory and in LocalStorage.
C2_FailedSendKeepsUserMessage ==
    [][\A outcome \in FailureOutcomes :
          ApiReturn(outcome) =>
              /\ ends_with_user_message(conversations', current_conv_id', user_input)
              /\ ends_with_user_message(load_conversations(store', user_id'),
                                        current_conv_id', user_input)]_vars

\* C3: at the end of every completed interaction, the first page load
\* included, the list stored under the user's key is the list in memory.
C3_StoreEqualsMemory ==
    pc = "idle" => stored_conversations = conversations

\* C4: when the request starts, LocalStorage already holds the current
\* conversation with the message just sent as its last message.
C4_UserMessageSavedBeforeCall ==
    pc = "calling" =>
        ends_with_user_message(stored_conversations, current_conv_id, user_input)

\* C5: a conversation that has received a user message has for title the
\* first TitleMax characters of the first user message sent in it, whatever
\* is sent in it later.
C5_TitleIsFirstMessagePrefix ==
    \A i \in 1..Len(conversations) :
        first_user_message[conversations[i].id] # NoText =>
            conversations[i].title =
                Prefix(first_user_message[conversations[i].id], TitleMax)

\* C6: Delete removes the current conversation and nothing else, keeps the
\* order of the others and makes the first of them current; when none is
\* left the list is one new conversation with a fresh id, the placeholder
\* title and no message, and it is current.
C6_DeleteRemovesCurrent ==
    [][DeleteConversation =>
          LET rest == remove_current(conversations, current_conv_id)
          IN  IF rest # <<>>
              THEN /\ conversations' = rest
                   /\ current_conv_id' = rest[1].id
              ELSE /\ Len(conversations') = 1
                   /\ conversations'[1].id \notin InUse
                   /\ conversations' = <<new_conversation(conversations'[1].id)>>
                   /\ current_conv_id' = conversations'[1].id]_vars

\* C7: the profile "Default" exists with the built-in instructions for
\* content, and current_instruction_name is the name of an existing profile.
C7_DefaultProfileKept ==
    /\ "Default" \in DOMAIN custom_instructions
    /\ custom_instructions["Default"] = DEFAULT_INSTRUCTIONS
    /\ current_instruction_name \in DOMAIN custom_instructions

\* C7's case: profiles were created, one was edited to the empty text,
\* another is selected
C7_Witness ==
    /\ Authenticated
    /\ DOMAIN custom_instructions = {"Default", "Strains", "Reports"}
    /\ custom_instructions["Strains"] = ""
    /\ current_instruction_name = "Reports"
    /\ instruction_edit_mode = "create"

\* the messages conversation i of the list had before a step are a prefix of
\* those conversation j has after it
keeps_messages(i, j) ==
    IsPrefix(conversations[i].messages, conversations'[j].messages)

\* C8, as stated: in every step a conversation that exists before and after
\* keeps the messages it had, as a prefix of those it has.
C8_AppendOnly ==
    [][\A i \in 1..Len(conversations), j \in 1..Len(conversations') :
          conversations[i].id = conversations'[j].id => keeps_messages(i, j)]_vars

\* C8, amended: in every step of a session a conversation that exists before
\* and after keeps the messages it had, as a prefix of those it has, unless
\* the step is Clear Current Conversation and the conversation is the one it
\* clears, which is left with no message.
C8_AppendOnlyButClear ==
    [][\A i \in 1..Len(conversations), j \in 1..Len(conversations') :
          conversations[i].id = conversations'[j].id =>
              \/ keeps_messages(i, j)
              \/ /\ ClearConversation
                 /\ conversations'[j].id = current_conv_id'
                 /\ conversations'[j].messages = <<>>]_vars

\* C8's case: a conversation holds a user message and the reply appended
\* after it, next to another conversation
C8_Witness ==
    /\ Authenticated
    /\ Len(conversations) = 2
    /\ \E i \in 1..2 : conversations[i].messages =
                           <<user_message(TextLong), assistant_message(ReplyText)>>

\* the list last written under the key of user uid
last_saved_list(uid) == getItem(last_saved, CONVERSATIONS_KEY(uid)).value

\* C9: the script run that follows a reload takes the identifier the session
\* had before the reload, leaves the stored "user_id" as it is, and loads
\* the list last saved for that identifier.
C9_ReloadRestores ==
    [][(pc = "closed" /\ pc' = "idle" /\ prev_user_id # <<>>) =>
          /\ user_id' = prev_user_id
          /\ getItem(store', KEY_USER_ID) = getItem(store, KEY_USER_ID)
          /\ getItem(store', KEY_USER_ID) = [present |-> TRUE, value |-> prev_user_id]
          /\ last_loaded'.called
          /\ last_loaded'.value = last_saved_list(prev_user_id)
          /\ (last_loaded'.value # <<>> => conversations' = last_loaded'.value)]_vars

\* C9's case: a list of several conversations, with messages of special
\* characters, has been loaded for the identifier of before the reload
C9_Witness ==
    /\ pc = "idle"
    /\ user_id = prev_user_id
    /\ last_loaded.called
    /\ Len(last_loaded.value) = MaxStored
    /\ conversations = last_loaded.value
    /\ \A i \in 1..Len(conversations) :
           conversations[i].messages =
               <<user_message(TextLong), assistant_message(ReplyText)>>

\* C10: a script run in which the select box is not touched leaves
\* current_conv_id as it is, and a message sent goes to the conversation
\* that was current before the run.
C10_RenderKeepsCurrent ==
    [][/\ Rerun => current_conv_id' = current_conv_id
       /\ \A text \in UserTexts :
             SendMessage(text) =>
                 LET i == current_index(conversations, current_conv_id)
                 IN  conversations'[i].messages =
                         Append(conversations[i].messages, user_message(text))]_vars

====
